---- MODULE Spec2Model ----
(***************************************************************************)
(* scripts/update_conda.py: the release helper that hashes the five        *)
(* platform archives of a release directory and rewrites                   *)
(* scripts/conda/meta.yaml with the version and the SHA256 checksums.      *)
(*                                                                         *)
(* Text is a sequence of one-character strings, so that the regular        *)
(* expression of line 56, str.replace of line 60 and the byte offsets of   *)
(* the file write of lines 63-64 are computed on the characters the        *)
(* script sees.                                                            *)
(***************************************************************************)
EXTENDS Integers, Sequences, FiniteSets, TLC

VARIABLES
    archives,     \* filesystem: archive path -> bytes of the file, or NoFile
    meta_exists,  \* filesystem: scripts/conda/meta.yaml exists
    meta_yaml,    \* filesystem: the characters of scripts/conda/meta.yaml
    pc,           \* per invocation: position in main / update_meta_yaml
    args,         \* per invocation: argparse result (version, release_dir)
    version,      \* per invocation: local `version` after lines 24-28
    version_num,  \* per invocation: local `version_num` after lines 24-28
    checksums,    \* per invocation: local dict `checksums`, in insertion order
    content,      \* per invocation: local `content`
    bufsize,      \* per invocation: size of the buffer file.read() reads into
    stdout,       \* per invocation: the lines printed
    rc,           \* per invocation: exit status given to sys.exit
    read_text,    \* per invocation: the characters of the file that file.read()
                  \* of line 53 has read so far, before newline translation
    fsops,        \* history: per invocation, its filesystem operations in order
    wlog,         \* history: the order of all truncations and writes of meta.yaml
    meta0         \* history: meta.yaml as it was before any invocation

vars == <<archives, meta_exists, meta_yaml, pc, args, version, version_num,
          checksums, content, bufsize, stdout, rc, read_text, fsops, wlog, meta0>>

-----------------------------------------------------------------------------
(* Literals of the script, as characters.                                  *)

\* the common stem of the five placeholder tokens, lines 32-36
PlaceholderStem ==
    <<"R","E","P","L","A","C","E","_","W","I","T","H","_","A","C","T","U","A","L","_","C","H","E","C","K","S","U","M","_">>

\* r'{% set version = "'  : the literal head of the pattern of line 56
DeclOpen ==
    <<"{","%"," ","s","e","t"," ","v","e","r","s","i","o","n"," ","="," ","\"">>

\* r'" %}' : the literal tail of the pattern of line 56
DeclClose ==
    <<"\""," ","%","}">>

Quote == "\""

meta_yaml_path == "scripts/conda/meta.yaml"

\* the dict `files` of lines 31-37, in insertion order
files ==
    << [file_name |-> "cloudworkstation-linux-amd64.tar.gz",
        placeholder |-> PlaceholderStem \o <<"L","I","N","U","X","_","A","M","D","6","4">>],
       [file_name |-> "cloudworkstation-linux-arm64.tar.gz",
        placeholder |-> PlaceholderStem \o <<"L","I","N","U","X","_","A","R","M","6","4">>],
       [file_name |-> "cloudworkstation-darwin-amd64.tar.gz",
        placeholder |-> PlaceholderStem \o <<"D","A","R","W","I","N","_","A","M","D","6","4">>],
       [file_name |-> "cloudworkstation-darwin-arm64.tar.gz",
        placeholder |-> PlaceholderStem \o <<"D","A","R","W","I","N","_","A","R","M","6","4">>],
       [file_name |-> "cloudworkstation-windows-amd64.zip",
        placeholder |-> PlaceholderStem \o <<"W","I","N","D","O","W","S">>] >>

FileNames == {files[i].file_name : i \in 1..Len(files)}

-----------------------------------------------------------------------------
(* The filesystem the invocations run against.                             *)

NoFile == "ENOENT"

\* the release directories that exist; any other release_dir is no directory
ReleaseDirs == {"dist/r1", "dist/r2"}
DirArgs == ReleaseDirs \cup {"dist/none"}

\* os.path.join(release_dir, file_name), line 42
path_join(release_dir, file_name) == release_dir \o "/" \o file_name

ArchivePaths == {path_join(d, f) : d \in ReleaseDirs, f \in FileNames}

\* the bytes an archive holds when it is present: every build of every
\* platform has its own content
ArchiveBytes(release_dir, file_name) == file_name \o " " \o release_dir

\* hashlib.sha256 of lines 15-19 on the archive contents above
\* (hexdigest(), lowercase hexadecimal, 64 characters)
calculate_sha256(bytes) ==
    CASE bytes = "cloudworkstation-linux-amd64.tar.gz dist/r1" ->
           <<"c","4","1","a","b","5","b","4","5","9","2","9","b","9","3","a","5","c","7","9","8","6","2","5","1","f","f","3","6","7","9","3","4","f","5","c","6","f","9","4","b","5","a","d","2","5","1","3","4","a","8","9","e","3","d","4","8","3","3","0","d","a","b","4">>
      [] bytes = "cloudworkstation-linux-arm64.tar.gz dist/r1" ->
           <<"5","1","0","a","9","4","e","7","7","5","9","9","1","2","c","2","7","f","0","1","b","8","b","8","2","3","6","9","7","a","7","5","3","3","a","d","9","2","9","2","5","8","c","a","3","3","a","2","f","4","9","f","8","4","4","5","a","2","d","1","f","b","a","b">>
      [] bytes = "cloudworkstation-darwin-amd64.tar.gz dist/r1" ->
           <<"d","a","d","0","d","a","b","7","e","b","9","5","7","e","2","5","0","3","e","5","9","f","d","7","e","1","c","1","b","5","2","2","9","7","6","d","c","c","6","d","2","c","8","2","a","5","f","1","7","9","1","c","3","c","8","0","5","7","c","a","4","b","1","3">>
      [] bytes = "cloudworkstation-darwin-arm64.tar.gz dist/r1" ->
           <<"2","6","b","0","7","d","6","4","1","1","5","d","3","9","7","b","3","9","1","a","3","8","c","e","1","3","4","0","a","8","6","d","8","0","5","d","5","e","e","2","6","7","6","0","4","0","2","f","1","b","a","9","d","d","9","c","6","e","c","d","d","9","e","5">>
      [] bytes = "cloudworkstation-windows-amd64.zip dist/r1" ->
           <<"3","0","f","f","e","6","1","9","b","9","6","a","8","1","e","3","e","3","9","c","1","8","b","5","b","b","e","9","7","6","b","2","2","a","9","2","8","7","1","9","f","a","2","0","e","f","d","7","e","d","4","0","c","9","4","7","a","2","4","b","9","e","6","0">>
      [] bytes = "cloudworkstation-linux-amd64.tar.gz dist/r2" ->
           <<"c","a","5","e","5","4","d","b","c","0","3","d","e","2","4","f","3","8","8","c","a","f","4","b","7","5","c","3","e","3","e","b","1","0","0","9","2","0","1","4","1","a","1","5","6","3","9","b","b","e","b","3","5","d","b","d","3","6","0","7","8","6","3","4">>
      [] bytes = "cloudworkstation-linux-arm64.tar.gz dist/r2" ->
           <<"d","7","4","6","2","8","6","2","7","1","7","d","0","1","6","7","0","e","a","1","f","9","5","4","7","2","1","c","d","a","5","9","e","7","1","9","0","4","c","9","8","b","2","1","1","2","c","9","2","0","c","0","b","9","8","a","d","a","d","9","6","3","0","7">>
      [] bytes = "cloudworkstation-darwin-amd64.tar.gz dist/r2" ->
           <<"5","b","9","b","2","5","1","9","2","a","1","c","2","2","8","b","4","2","a","5","c","5","9","8","4","b","d","8","b","b","f","9","1","f","8","4","e","8","e","1","1","0","2","0","5","a","1","0","5","6","1","e","e","5","1","0","8","a","2","b","2","1","9","8">>
      [] bytes = "cloudworkstation-darwin-arm64.tar.gz dist/r2" ->
           <<"4","9","6","7","0","4","f","b","9","3","f","2","1","3","5","1","0","b","e","f","2","5","9","e","3","d","c","a","e","4","f","7","d","4","6","7","f","b","6","3","0","8","1","4","5","8","2","7","a","4","8","e","1","e","c","a","2","7","d","3","e","1","7","3">>
      [] bytes = "cloudworkstation-windows-amd64.zip dist/r2" ->
           <<"4","d","4","a","8","0","2","0","b","b","9","3","6","9","f","6","1","3","0","8","8","e","2","a","8","5","d","5","5","6","7","4","2","d","6","4","3","9","1","0","5","2","b","0","d","1","e","0","6","2","3","5","4","0","7","e","9","2","2","5","a","0","f","a">>

-----------------------------------------------------------------------------
(* Text primitives.                                                        *)

Min(S) == CHOOSE x \in S : \A y \in S : x <= y

\* the literal `lit` occurs in `text` starting at index i
MatchAt(text, i, lit) ==
    /\ i + Len(lit) - 1 <= Len(text)
    /\ \A k \in 1..Len(lit) : text[i + k - 1] = lit[k]

\* VersionPatternEnd with the value matched by a greedy (.|\n)+ : the value
\* runs to the last quote of the text that ' %}' follows
VersionPatternEnd_greedy(text, i) ==
    IF ~MatchAt(text, i, DeclOpen) THEN 0
    ELSE LET s == i + Len(DeclOpen)
             qs == {j \in (s + 1)..Len(text) : MatchAt(text, j, DeclClose)}
         IN  IF qs = {} THEN 0
             ELSE (CHOOSE q \in qs : \A r \in qs : r <= q) + Len(DeclClose) - 1

\* The pattern r'{% set version = "[^"]+" %}' of line 56 tried at index i:
\* the index of the last character of the match, or 0 when it does not
\* match there. [^"]+ is greedy and cannot cross a quote, and the pattern
\* goes on with a quote, so the value runs exactly to the next quote and
\* must hold at least one character.
VersionPatternEnd(text, i) ==
    IF ~MatchAt(text, i, DeclOpen) THEN 0
    ELSE LET s == i + Len(DeclOpen)
             qs == {j \in s..Len(text) : text[j] = Quote}
         IN  IF qs = {} THEN 0
             ELSE LET q == Min(qs)
                  IN  IF q > s /\ MatchAt(text, q, DeclClose)
                      THEN q + Len(DeclClose) - 1
                      ELSE 0

\* re_sub with count=1: only the leftmost match is replaced
re_sub_first(repl, text, i) ==
    LET ms == {j \in i..Len(text) : VersionPatternEnd(text, j) # 0}
    IN  IF ms = {} THEN SubSeq(text, i, Len(text))
        ELSE LET j == Min(ms)
                 e == VersionPatternEnd(text, j)
             IN  SubSeq(text, i, j - 1) \o repl \o SubSeq(text, e + 1, Len(text))

\* re.sub(pattern, repl, text) of line 56 from index i on: count is not
\* given, so every non-overlapping match, leftmost first, is replaced.
\* The versions of the model hold no backslash, so the replacement
\* template expands to itself.
RECURSIVE re_sub(_, _, _)
re_sub(repl, text, i) ==
    LET ms == {j \in i..Len(text) : VersionPatternEnd(text, j) # 0}
    IN  IF ms = {} THEN SubSeq(text, i, Len(text))
        ELSE LET j == Min(ms)
                 e == VersionPatternEnd(text, j)
             IN  SubSeq(text, i, j - 1) \o repl \o re_sub(repl, text, e + 1)

\* str_replace with count=1: only the leftmost occurrence is replaced
str_replace_first(text, old, new, i) ==
    LET ms == {j \in i..Len(text) : MatchAt(text, j, old)}
    IN  IF ms = {} THEN SubSeq(text, i, Len(text))
        ELSE LET j == Min(ms)
             IN  SubSeq(text, i, j - 1) \o new
                     \o SubSeq(text, j + Len(old), Len(text))

\* text.replace(old, new) of line 60 from index i on: every
\* non-overlapping occurrence of the literal, leftmost first
RECURSIVE str_replace(_, _, _, _)
str_replace(text, old, new, i) ==
    LET ms == {j \in i..Len(text) : MatchAt(text, j, old)}
    IN  IF ms = {} THEN SubSeq(text, i, Len(text))
        ELSE LET j == Min(ms)
             IN  SubSeq(text, i, j - 1) \o new
                     \o str_replace(text, old, new, j + Len(old))

\* version.startswith('v'), line 24
startswith_v(v) == Len(v) >= 1 /\ v[1] = "v"

\* normalize_version_num without the slice of line 25
normalize_version_num_keeps_v(v) == v

\* lines 24-28: version_num is the bare form
normalize_version_num(v) == IF startswith_v(v) THEN SubSeq(v, 2, Len(v)) ELSE v

\* lines 24-28: version is the tagged form
normalize_version(v) == IF startswith_v(v) THEN v ELSE <<"v">> \o v

\* version_line with a line break after the declaration
version_line_newline(vnum) == DeclOpen \o vnum \o DeclClose \o <<"\n">>

\* f'{{% set version = "{version_num}" %}}', line 56
version_line(vnum) == DeclOpen \o vnum \o DeclClose

\* lines 59-60: one replace per entry of checksums, in insertion order
RECURSIVE replace_checksums(_, _, _)
replace_checksums(text, sums, k) ==
    IF k > Len(sums) THEN text
    ELSE replace_checksums(
             str_replace(text, sums[k].placeholder, sums[k].checksum, 1),
             sums, k + 1)

\* lines 55-60: the new content from the content read
substitute(text, vnum, sums) ==
    replace_checksums(re_sub(version_line(vnum), text, 1), sums, 1)

-----------------------------------------------------------------------------
(* Inputs: the version arguments and the templates meta.yaml starts from.  *)

\* the version arguments given on the command line
Versions ==
    { <<"1",".","0">>, <<"v","1",".","0">>, <<"v","2">> }

\* the most version declarations a template holds
MaxDecls == 2

\* the most times a template repeats its block of five checksum lines
MaxRepeat == 2

Digits == <<"1","2","3","4","5","6","7","8","9">>

\* the k-th version declaration a template starts with: 0.1, 0.2, ...
DeclLine(k) == version_line(<<"0", ".", Digits[k]>>) \o <<"\n">>

RECURSIVE DeclLines(_)
DeclLines(k) == IF k = 0 THEN <<>> ELSE DeclLines(k - 1) \o DeclLine(k)

\* one "sha256: <placeholder>" line per entry of files
RECURSIVE ChecksumLines(_)
ChecksumLines(n) ==
    IF n = 0 THEN <<>>
    ELSE ChecksumLines(n - 1)
           \o <<"s","h","a","2","5","6",":"," ">> \o files[n].placeholder \o <<"\n">>

RECURSIVE Blocks(_)
Blocks(r) == IF r = 0 THEN <<>> ELSE Blocks(r - 1) \o ChecksumLines(Len(files))

\* a meta.yaml with k version declarations and r blocks of checksum lines
Template(k, r) == DeclLines(k) \o Blocks(r)

Templates == {Template(k, r) : k \in 1..MaxDecls, r \in {1, MaxRepeat}}

\* the line endings a template may have besides "\n"
CarriageLineEndings == { <<"\r", "\n">>, <<"\r">> }

\* the text with every line ended by eol
with_line_ending(text, eol) == str_replace(text, <<"\n">>, eol, 1)

\* a meta.yaml saved with "\r\n" or with "\r" line endings
CarriageTemplates == {with_line_ending(Template(1, 1), eol) : eol \in CarriageLineEndings}

\* the release directories on disk when dist/r1 holds the archives named
\* in S and dist/r2 holds all five
ArchiveState(S) ==
    [ap \in ArchivePaths |->
        LET d == CHOOSE x \in ReleaseDirs : \E f \in FileNames : ap = path_join(x, f)
            f == CHOOSE x \in FileNames : ap = path_join(d, x)
        IN  IF d = "dist/r2" \/ f \in S THEN ArchiveBytes(d, f) ELSE NoFile]

\* dist/r1 holds any subset of the five archives
ArchiveStates == {ArchiveState(S) : S \in SUBSET FileNames}

-----------------------------------------------------------------------------
(* The invocations.                                                        *)

Procs == {"p1", "p2"}

Terminal == {"exit", "fault", "killed"}

NoStatus == -1

\* os.path.exists(file_path), line 43
exists(file_path) ==
    file_path \in DOMAIN archives /\ archives[file_path] # NoFile

\* hash_loop with a break at line 48: the loop ends at the first missing
\* archive
RECURSIVE hash_loop_break(_, _)
hash_loop_break(release_dir, n) ==
    IF n = 0 THEN [checksums |-> <<>>, stdout |-> <<>>, fsops |-> <<>>]
    ELSE LET prev == hash_loop_break(release_dir, n - 1)
             f == files[n]
             file_path == path_join(release_dir, f.file_name)
         IN  IF \E k \in 1..(n - 1) : ~exists(path_join(release_dir, files[k].file_name))
             THEN prev
             ELSE IF exists(file_path)
             THEN LET checksum == calculate_sha256(archives[file_path])
                  IN  [checksums |-> Append(prev.checksums,
                           [placeholder |-> f.placeholder, checksum |-> checksum]),
                       stdout |-> Append(prev.stdout,
                           [line |-> "Calculated checksum for", about |-> f.file_name,
                            value |-> checksum]),
                       fsops |-> prev.fsops \o
                           << [op |-> "exists", path |-> file_path],
                              [op |-> "read", path |-> file_path] >>]
             ELSE [checksums |-> prev.checksums,
                   stdout |-> Append(prev.stdout,
                       [line |-> "Warning: not found", about |-> file_path,
                        value |-> <<>>]),
                   fsops |-> Append(prev.fsops,
                       [op |-> "exists", path |-> file_path])]

\* the loop of lines 40-48 over the first n entries of files
RECURSIVE hash_loop(_, _)
hash_loop(release_dir, n) ==
    IF n = 0 THEN [checksums |-> <<>>, stdout |-> <<>>, fsops |-> <<>>]
    ELSE LET prev == hash_loop(release_dir, n - 1)
             f == files[n]
             file_path == path_join(release_dir, f.file_name)
         IN  IF exists(file_path)
             THEN LET checksum == calculate_sha256(archives[file_path])
                  IN  [checksums |-> Append(prev.checksums,
                           [placeholder |-> f.placeholder, checksum |-> checksum]),
                       stdout |-> Append(prev.stdout,
                           [line |-> "Calculated checksum for", about |-> f.file_name,
                            value |-> checksum]),
                       fsops |-> prev.fsops \o
                           << [op |-> "exists", path |-> file_path],
                              [op |-> "read", path |-> file_path] >>]
             ELSE [checksums |-> prev.checksums,
                   stdout |-> Append(prev.stdout,
                       [line |-> "Warning: not found", about |-> file_path,
                        value |-> <<>>]),
                   fsops |-> Append(prev.fsops,
                       [op |-> "exists", path |-> file_path])]

\* isdir without the check: any release_dir passes
isdir_any(release_dir) == release_dir \in DirArgs

\* os.path.isdir(args.release_dir), line 75
isdir(release_dir) == release_dir \in ReleaseDirs

\* main, lines 68-79, and update_meta_yaml up to line 48: the arguments are
\* parsed, a release_dir that is no directory ends the run with status 1,
\* otherwise the version is normalised and the archives are hashed
main(p) ==
    /\ pc[p] = "idle"
    /\ \E v \in Versions, d \in DirArgs :
        /\ args' = [args EXCEPT ![p] = [version |-> v, release_dir |-> d]]
        /\ IF ~isdir(d)
           THEN /\ stdout' = [stdout EXCEPT ![p] =
                     << [line |-> "Error: Release directory does not exist",
                         about |-> d, value |-> <<>>] >>]
                /\ rc' = [rc EXCEPT ![p] = 1]
                /\ pc' = [pc EXCEPT ![p] = "exit"]
                /\ UNCHANGED <<version, version_num, checksums, fsops>>
           ELSE LET h == hash_loop(d, Len(files))
                IN  /\ version' = [version EXCEPT ![p] = normalize_version(v)]
                    /\ version_num' = [version_num EXCEPT ![p] = normalize_version_num(v)]
                    /\ checksums' = [checksums EXCEPT ![p] = h.checksums]
                    /\ stdout' = [stdout EXCEPT ![p] = h.stdout]
                    /\ fsops' = [fsops EXCEPT ![p] = h.fsops]
                    /\ pc' = [pc EXCEPT ![p] = "hashed"]
                    /\ UNCHANGED rc
    /\ UNCHANGED <<archives, meta_exists, meta_yaml, content, bufsize, read_text,
                   wlog, meta0>>

\* the least number of bytes FileIO.readall grows its buffer by
SMALLCHUNK == 8192

\* the buffer size from which FileIO.readall grows its buffer by an eighth
LARGE_BUFFER_CUTOFF_SIZE == 65536

Max(a, b) == IF a >= b THEN a ELSE b

\* FileIO.readall: the size the buffer gets when it is full at currentsize
new_buffersize(currentsize) ==
    currentsize + Max(SMALLCHUNK,
                      IF currentsize > LARGE_BUFFER_CUTOFF_SIZE
                      THEN currentsize \div 8
                      ELSE 256 + currentsize)

\* FileIO.readall: the first buffer, one byte more than the size fstat
\* gives for the file
first_buffersize(size) == IF size > 0 THEN size + 1 ELSE SMALLCHUNK

\* open_for_read with the file opened in mode "w+": it is truncated as it
\* is opened
open_for_read_truncating(p) ==
    /\ pc[p] = "hashed"
    /\ meta_yaml' = <<>>
    /\ meta_exists' = TRUE
    /\ bufsize' = [bufsize EXCEPT ![p] = first_buffersize(0)]
    /\ read_text' = [read_text EXCEPT ![p] = <<>>]
    /\ fsops' = [fsops EXCEPT ![p] =
           Append(@, [op |-> "truncate", path |-> meta_yaml_path])]
    /\ wlog' = Append(wlog, [proc |-> p, op |-> "truncate"])
    /\ pc' = [pc EXCEPT ![p] = "reading"]
    /\ UNCHANGED <<archives, args, version, version_num, checksums, content, stdout,
                   rc, meta0>>

\* line 52 and the start of file.read() of line 53: open(meta_yaml_path, "r"),
\* then fstat for the size of the buffer; a missing template raises
\* FileNotFoundError, which nothing catches: the interpreter ends with
\* status 1
open_for_read(p) ==
    /\ pc[p] = "hashed"
    /\ IF meta_exists
       THEN /\ bufsize' = [bufsize EXCEPT ![p] = first_buffersize(Len(meta_yaml))]
            /\ read_text' = [read_text EXCEPT ![p] = <<>>]
            /\ pc' = [pc EXCEPT ![p] = "reading"]
            /\ UNCHANGED rc
       ELSE /\ pc' = [pc EXCEPT ![p] = "fault"]
            /\ rc' = [rc EXCEPT ![p] = 1]
            /\ UNCHANGED <<bufsize, read_text>>
    /\ UNCHANGED <<archives, meta_exists, meta_yaml, args, version, version_num,
                   checksums, content, stdout, fsops, wlog, meta0>>

\* lines 52-53, the text mode of open(meta_yaml_path, "r"): what file.read()
\* returns for the characters read from index i on, every "\r\n" and every
\* other "\r" translated to "\n"
RECURSIVE universal_newlines(_, _)
universal_newlines(text, i) ==
    LET returns == {j \in i..Len(text) : text[j] = "\r"}
    IN  IF returns = {} THEN SubSeq(text, i, Len(text))
        ELSE LET j == CHOOSE m \in returns : \A n \in returns : m <= n
             IN  SubSeq(text, i, j - 1) \o <<"\n">> \o
                 universal_newlines(text,
                     IF j < Len(text) /\ text[j + 1] = "\n" THEN j + 2 ELSE j + 1)

\* what read(fd, n) returns at offset `offset` of a file holding `text`
read_at(text, offset, n) ==
    SubSeq(text, offset + 1, IF offset + n <= Len(text) THEN offset + n ELSE Len(text))

\* line 53, file.read(): one read() call of the loop of FileIO.readall. The
\* buffer grows when it is full; the call reads at the descriptor's offset
\* what the file holds at that moment; a call that returns nothing ends
\* the loop and file.read() returns the characters read, their line
\* endings translated
read_template(p) ==
    /\ pc[p] = "reading"
    /\ LET bytes_read == Len(read_text[p])
           size == IF bytes_read >= bufsize[p]
                   THEN new_buffersize(bytes_read)
                   ELSE bufsize[p]
           chunk == read_at(meta_yaml, bytes_read, size - bytes_read)
       IN  /\ bufsize' = [bufsize EXCEPT ![p] = size]
           /\ fsops' = [fsops EXCEPT ![p] =
                  Append(@, [op |-> "read", path |-> meta_yaml_path])]
           /\ IF chunk = <<>>
              THEN /\ content' = [content EXCEPT ![p] = universal_newlines(read_text[p], 1)]
                   /\ pc' = [pc EXCEPT ![p] = "read"]
                   /\ UNCHANGED read_text
              ELSE /\ read_text' = [read_text EXCEPT ![p] = @ \o chunk]
                   /\ UNCHANGED <<content, pc>>
    /\ UNCHANGED <<archives, meta_exists, meta_yaml, args, version, version_num,
                   checksums, stdout, rc, wlog, meta0>>

\* lines 55-63: the substitutions on the local content, then
\* open(meta_yaml_path, "w"), which truncates the file to length 0
open_for_write(p) ==
    /\ pc[p] = "read"
    /\ content' = [content EXCEPT ![p] =
           substitute(content[p], version_num[p], checksums[p])]
    /\ meta_yaml' = <<>>
    /\ meta_exists' = TRUE
    /\ fsops' = [fsops EXCEPT ![p] =
           Append(@, [op |-> "truncate", path |-> meta_yaml_path])]
    /\ wlog' = Append(wlog, [proc |-> p, op |-> "truncate"])
    /\ pc' = [pc EXCEPT ![p] = "opened"]
    /\ UNCHANGED <<archives, args, version, version_num, checksums, bufsize, stdout,
                   rc, read_text, meta0>>

\* write_at_start on a descriptor opened for appending: the data goes
\* after what the file holds
write_at_end(old, data) == old \o data

\* what the file holds after `data` is written at offset 0 of a file
\* holding `old`: the bytes beyond the written ones stay
write_at_start(old, data) == data \o SubSeq(old, Len(data) + 1, Len(old))

\* os.linesep where the script runs, a POSIX system ("scripts/conda/meta.yaml")
linesep == <<"\n">>

\* lines 63-64, the text mode of open(meta_yaml_path, "w"): the characters
\* written for the text, every "\n" translated to os.linesep
write_newlines(text) == str_replace(text, <<"\n">>, linesep, 1)

\* line 64 and the end of the with block: file.write(content) stays in the
\* buffer of the file object (the content is shorter than the buffer) and
\* goes out in one write() at the descriptor's offset 0 when the file is
\* closed
write_and_close(p) ==
    /\ pc[p] = "opened"
    /\ meta_yaml' = write_at_start(meta_yaml, write_newlines(content[p]))
    /\ fsops' = [fsops EXCEPT ![p] =
           Append(@, [op |-> "write", path |-> meta_yaml_path])]
    /\ wlog' = Append(wlog, [proc |-> p, op |-> "write"])
    /\ pc' = [pc EXCEPT ![p] = "closed"]
    /\ UNCHANGED <<archives, meta_exists, args, version, version_num, checksums,
                   content, bufsize, stdout, rc, read_text, meta0>>

\* summary_line with the tagged form
summary_line_tagged(p) ==
    [line |-> "Updated with version", about |-> meta_yaml_path,
     value |-> version[p]]

\* the summary line of line 66
summary_line(p) ==
    [line |-> "Updated with version", about |-> meta_yaml_path,
     value |-> version_num[p]]

\* line 66: the summary line is printed
print_summary(p) ==
    /\ pc[p] = "closed"
    /\ stdout' = [stdout EXCEPT ![p] = Append(@, summary_line(p))]
    /\ pc' = [pc EXCEPT ![p] = "printed"]
    /\ UNCHANGED <<archives, meta_exists, meta_yaml, args, version, version_num,
                   checksums, content, bufsize, rc, read_text, fsops, wlog, meta0>>

\* line 80 and line 83: update_meta_yaml returns, main returns 0 and
\* sys.exit ends the process with that status
return_0(p) ==
    /\ pc[p] = "printed"
    /\ rc' = [rc EXCEPT ![p] = 0]
    /\ pc' = [pc EXCEPT ![p] = "exit"]
    /\ UNCHANGED <<archives, meta_exists, meta_yaml, args, version, version_num,
                   checksums, content, bufsize, stdout, read_text, fsops, wlog, meta0>>

\* the process is killed from outside between two steps of update_meta_yaml
\* that follow the loop of lines 40-48
kill(p) ==
    /\ pc[p] \in {"hashed", "reading", "read", "opened", "closed", "printed"}
    /\ pc' = [pc EXCEPT ![p] = "killed"]
    /\ UNCHANGED <<archives, meta_exists, meta_yaml, args, version, version_num,
                   checksums, content, bufsize, stdout, rc, read_text, fsops, wlog,
                   meta0>>

\* the process is killed from outside in main or in lines 24-28, before the
\* loop: before os.path.isdir has answered or the error line is printed
\* ("parsed"), after the error line of line 76 and before the process ends
\* ("reported"), as update_meta_yaml is entered ("entered"), or after
\* version_num is set and before line 28 ("numbered")
kill_in_main(p) ==
    /\ pc[p] = "idle"
    /\ \E v \in Versions, d \in DirArgs,
          at \in {"parsed", "reported", "entered", "numbered"} :
        /\ at = "reported" => ~isdir(d)
        /\ at \in {"entered", "numbered"} => isdir(d)
        /\ args' = [args EXCEPT ![p] = [version |-> v, release_dir |-> d]]
        /\ version' = [version EXCEPT ![p] =
               IF at \in {"entered", "numbered"} THEN v ELSE @]
        /\ version_num' = [version_num EXCEPT ![p] =
               IF at = "numbered" THEN normalize_version_num(v) ELSE @]
        /\ stdout' = [stdout EXCEPT ![p] =
               IF at = "reported"
               THEN << [line |-> "Error: Release directory does not exist",
                        about |-> d, value |-> <<>>] >>
               ELSE <<>>]
        /\ pc' = [pc EXCEPT ![p] = "killed"]
    /\ UNCHANGED <<archives, meta_exists, meta_yaml, checksums, content, bufsize, rc,
                   read_text, fsops, wlog, meta0>>

\* the process is killed from outside inside the loop of lines 40-48, in
\* the pass over entry n + 1 of files: before os.path.exists is called
\* ("top"), after it has answered and before open() of line 16 or the
\* warning of line 48 ("exists"), while calculate_sha256 reads the archive
\* or before line 45 ("read"), or after the checksum is stored and before
\* the print of line 46 ("stored")
kill_in_loop(p) ==
    /\ pc[p] = "idle"
    /\ \E v \in Versions, d \in ReleaseDirs, n \in 0..(Len(files) - 1),
          at \in {"top", "exists", "read", "stored"} :
        LET f == files[n + 1]
            file_path == path_join(d, f.file_name)
            h == hash_loop(d, n)
        IN  /\ at \in {"read", "stored"} => exists(file_path)
            /\ args' = [args EXCEPT ![p] = [version |-> v, release_dir |-> d]]
            /\ version' = [version EXCEPT ![p] = normalize_version(v)]
            /\ version_num' = [version_num EXCEPT ![p] = normalize_version_num(v)]
            /\ checksums' = [checksums EXCEPT ![p] =
                   IF at = "stored"
                   THEN Append(h.checksums,
                            [placeholder |-> f.placeholder,
                             checksum |-> calculate_sha256(archives[file_path])])
                   ELSE h.checksums]
            /\ stdout' = [stdout EXCEPT ![p] = h.stdout]
            /\ fsops' = [fsops EXCEPT ![p] = h.fsops \o
                   (CASE at = "top" -> <<>>
                      [] at = "exists" -> << [op |-> "exists", path |-> file_path] >>
                      [] OTHER -> << [op |-> "exists", path |-> file_path],
                                     [op |-> "read", path |-> file_path] >>)]
            /\ pc' = [pc EXCEPT ![p] = "killed"]
    /\ UNCHANGED <<archives, meta_exists, meta_yaml, content, bufsize, rc, read_text,
                   wlog, meta0>>

\* the process is killed from outside in lines 56-60, after the template is
\* read and before it is opened for writing: re.sub is done and so are the
\* replacements of the first n placeholders of checksums
kill_in_substitute(p) ==
    /\ pc[p] = "read"
    /\ \E n \in 0..Len(checksums[p]) :
        content' = [content EXCEPT ![p] =
            replace_checksums(re_sub(version_line(version_num[p]), @, 1),
                              SubSeq(checksums[p], 1, n), 1)]
    /\ pc' = [pc EXCEPT ![p] = "killed"]
    /\ UNCHANGED <<archives, meta_exists, meta_yaml, args, version, version_num,
                   checksums, bufsize, stdout, rc, read_text, fsops, wlog, meta0>>

\* open() or f.read() of line 16-17 raises OSError on the n-th archive,
\* which exists: the loop of lines 40-48 ends there and nothing catches
\* the exception
archive_fault(p) ==
    /\ pc[p] = "idle"
    /\ \E v \in Versions, d \in ReleaseDirs, n \in 1..Len(files) :
        LET file_path == path_join(d, files[n].file_name)
            h == hash_loop(d, n - 1)
        IN  /\ exists(file_path)
            /\ args' = [args EXCEPT ![p] = [version |-> v, release_dir |-> d]]
            /\ version' = [version EXCEPT ![p] = normalize_version(v)]
            /\ version_num' = [version_num EXCEPT ![p] = normalize_version_num(v)]
            /\ checksums' = [checksums EXCEPT ![p] = h.checksums]
            /\ stdout' = [stdout EXCEPT ![p] = h.stdout]
            /\ fsops' = [fsops EXCEPT ![p] = h.fsops \o
                   << [op |-> "exists", path |-> file_path],
                      [op |-> "read", path |-> file_path] >>]
            /\ rc' = [rc EXCEPT ![p] = 1]
            /\ pc' = [pc EXCEPT ![p] = "fault"]
    /\ UNCHANGED <<archives, meta_exists, meta_yaml, content, bufsize, read_text,
                   wlog, meta0>>

NoArgs == [version |-> <<>>, release_dir |-> ""]

InitLocals ==
    /\ pc = [p \in Procs |-> "idle"]
    /\ args = [p \in Procs |-> NoArgs]
    /\ version = [p \in Procs |-> <<>>]
    /\ version_num = [p \in Procs |-> <<>>]
    /\ checksums = [p \in Procs |-> <<>>]
    /\ content = [p \in Procs |-> <<>>]
    /\ bufsize = [p \in Procs |-> 0]
    /\ stdout = [p \in Procs |-> <<>>]
    /\ rc = [p \in Procs |-> NoStatus]
    /\ read_text = [p \in Procs |-> <<>>]
    /\ fsops = [p \in Procs |-> <<>>]
    /\ wlog = <<>>

\* any release directory contents, and a template that is one of the
\* templates or is missing
Init ==
    /\ archives \in ArchiveStates
    /\ meta_exists \in BOOLEAN
    /\ meta_yaml \in (IF meta_exists THEN Templates \cup CarriageTemplates ELSE {<<>>})
    /\ meta0 = meta_yaml
    /\ InitLocals

\* one run of the script, which an I/O fault or a kill may end at any step
Next ==
    \/ main("p1")
    \/ archive_fault("p1")
    \/ open_for_read("p1")
    \/ read_template("p1")
    \/ open_for_write("p1")
    \/ write_and_close("p1")
    \/ print_summary("p1")
    \/ return_0("p1")
    \/ kill("p1")
    \/ kill_in_main("p1")
    \/ kill_in_loop("p1")
    \/ kill_in_substitute("p1")

Spec == Init /\ [][Next]_vars

\* the archives dist/r1 may hold when the script is run twice
TwiceArchives ==
    { {},
      {"cloudworkstation-linux-amd64.tar.gz", "cloudworkstation-windows-amd64.zip"},
      FileNames }

InitTwice ==
    /\ archives \in {ArchiveState(S) : S \in TwiceArchives}
    /\ meta_exists = TRUE
    /\ meta_yaml \in Templates \cup CarriageTemplates
    /\ meta0 = meta_yaml
    /\ InitLocals

\* the script is run twice, the second run after the first has ended
NextTwice ==
    \E p \in Procs :
        \/ (p = "p2" => pc["p1"] \in Terminal) /\ main(p)
        \/ open_for_read(p)
        \/ read_template(p)
        \/ open_for_write(p)
        \/ write_and_close(p)
        \/ print_summary(p)
        \/ return_0(p)

SpecTwice == InitTwice /\ [][NextTwice]_vars

\* the archives dist/r1 may hold when two runs race
RaceArchives ==
    { {},
      {"cloudworkstation-linux-amd64.tar.gz", "cloudworkstation-windows-amd64.zip"} }

InitRace ==
    /\ archives \in {ArchiveState(S) : S \in RaceArchives}
    /\ meta_exists = TRUE
    /\ meta_yaml \in {Template(k, 1) : k \in 1..MaxDecls}
    /\ meta0 = meta_yaml
    /\ InitLocals

\* two runs at once: nothing orders their steps
NextRace ==
    \E p \in Procs :
        \/ main(p)
        \/ open_for_read(p)
        \/ read_template(p)
        \/ open_for_write(p)
        \/ write_and_close(p)
        \/ print_summary(p)
        \/ return_0(p)

SpecRace == InitRace /\ [][NextRace]_vars

-----------------------------------------------------------------------------
(* Vocabulary of the properties.                                           *)

\* how many times the literal occurs in the text
Occurrences(text, lit) ==
    Cardinality({i \in 1..Len(text) : MatchAt(text, i, lit)})

\* A version declaration with any value, empty or not, tried at index i:
\* the index of the quote that closes the value, or 0.
DeclQuote(text, i) ==
    IF ~MatchAt(text, i, DeclOpen) THEN 0
    ELSE LET qs == {j \in (i + Len(DeclOpen))..Len(text) : text[j] = Quote}
         IN  IF qs # {} /\ MatchAt(text, Min(qs), DeclClose) THEN Min(qs) ELSE 0

\* the values the text declares, in the order of the text
RECURSIVE DeclSeq(_, _)
DeclSeq(text, i) ==
    LET ds == {j \in i..Len(text) : DeclQuote(text, j) # 0}
    IN  IF ds = {} THEN <<>>
        ELSE LET j == Min(ds)
                 q == DeclQuote(text, j)
             IN  <<SubSeq(text, j + Len(DeclOpen), q - 1)>>
                     \o DeclSeq(text, q + Len(DeclClose))

\* the version argument without one leading v
Bare(v) == IF v # <<>> /\ Head(v) = "v" THEN Tail(v) ELSE v

\* the version argument with a leading v
Tagged(v) == <<"v">> \o Bare(v)

\* the same version written the other way: vX for X, X for vX
OtherForm(v) == IF v # <<>> /\ Head(v) = "v" THEN Tail(v) ELSE <<"v">> \o v

\* the run p went through update_meta_yaml and main returned 0
Updated(p) == pc[p] = "exit" /\ rc[p] = 0

\* p is the run whose write of meta.yaml is the latest
\* the text file.read() of line 53 returned to run p
TextRead(p) == universal_newlines(read_text[p], 1)

LatestWriter(p) ==
    /\ Updated(p)
    /\ wlog # <<>>
    /\ wlog[Len(wlog)] = [proc |-> p, op |-> "write"]

\* the archive of the i-th entry of files is in the release directory of p
Present(p, i) == exists(path_join(args[p].release_dir, files[i].file_name))

\* the digest of the archive of the i-th entry of files in directory d
DigestOf(d, i) == calculate_sha256(ArchiveBytes(d, files[i].file_name))

-----------------------------------------------------------------------------
(* C1: after update_meta_yaml, every version declaration the template held *)
(* reads {% set version = "<bare>" %}, <bare> being the version argument   *)
(* without one leading v, and the argument written the other way (vX for   *)
(* X, X for vX) gives the same template.                                   *)
C1_BareVersionInTemplate ==
    \A p \in Procs :
        LatestWriter(p) /\ DeclSeq(read_text[p], 1) # <<>> =>
            LET decls == DeclSeq(meta_yaml, 1)
            IN  /\ decls # <<>>
                /\ \A k \in 1..Len(decls) : decls[k] = Bare(args[p].version)
                /\ Occurrences(meta_yaml, DeclOpen \o Bare(args[p].version) \o DeclClose)
                       = Len(decls)
                /\ meta_yaml = substitute(TextRead(p),
                       normalize_version_num(OtherForm(args[p].version)),
                       checksums[p])

\* a run given a version with a leading v has rewritten a declaration
C1_Witness ==
    \E p \in Procs :
        /\ LatestWriter(p)
        /\ Head(args[p].version) = "v"
        /\ DeclSeq(read_text[p], 1) # <<>>
        /\ DeclSeq(meta_yaml, 1)[1] = Tail(args[p].version)

(* C2: after update_meta_yaml, the placeholder of every archive present in *)
(* release_dir occurs nowhere in the template, each of its occurrences     *)
(* having become the archive's digest; the placeholder of every absent     *)
(* archive occurs as often as before.                                      *)
C2_PlaceholdersOfPresentArchivesGone ==
    \A p \in Procs :
        LatestWriter(p) =>
            \A i \in 1..Len(files) :
                LET ph == files[i].placeholder
                    digest == DigestOf(args[p].release_dir, i)
                IN  IF Present(p, i)
                    THEN /\ Occurrences(meta_yaml, ph) = 0
                         /\ Occurrences(meta_yaml, digest)
                                = Occurrences(read_text[p], ph)
                                    + Occurrences(read_text[p], digest)
                    ELSE /\ Occurrences(meta_yaml, ph) = Occurrences(read_text[p], ph)
                         /\ Occurrences(meta_yaml, digest)
                                = Occurrences(read_text[p], digest)

\* a run has replaced a placeholder that occurred twice and has left
\* another one, whose archive is absent, twice in the template
C2_Witness ==
    \E p \in Procs : \E i, j \in 1..Len(files) :
        /\ LatestWriter(p)
        /\ Present(p, i) /\ ~Present(p, j)
        /\ Occurrences(read_text[p], files[i].placeholder) = 2
        /\ Occurrences(meta_yaml, DigestOf(args[p].release_dir, i)) = 2
        /\ Occurrences(meta_yaml, files[j].placeholder) = 2

(* C3: when release_dir is no directory, main returns 1 and does nothing   *)
(* else: no archive is looked for or hashed, the template is neither read  *)
(* nor written and stays as it was; a run killed before main returns has   *)
(* no status and has done none of these either.                            *)
C3_MissingDirectoryExitsOne ==
    /\ \A p \in Procs :
           pc[p] # "idle" /\ args[p].release_dir \notin ReleaseDirs =>
               /\ pc[p] \in {"exit", "killed"}
               /\ pc[p] = "exit" => rc[p] = 1 /\ Len(stdout[p]) = 1
               /\ pc[p] = "killed" => rc[p] = NoStatus /\ Len(stdout[p]) <= 1
               /\ \A k \in 1..Len(stdout[p]) :
                      stdout[p][k].line = "Error: Release directory does not exist"
               /\ fsops[p] = <<>> /\ checksums[p] = <<>>
               /\ read_text[p] = <<>> /\ content[p] = <<>>
               /\ \A k \in 1..Len(wlog) : wlog[k].proc # p
    /\ wlog = <<>> => meta_yaml = meta0

\* a run was given a release_dir that is no directory, and has ended
C3_Witness ==
    /\ pc["p1"] = "exit" /\ args["p1"].release_dir = "dist/none"
    /\ meta_exists /\ meta_yaml = meta0 /\ rc["p1"] = 1

\* the placeholders, paired with their digests, of the archives present in
\* directory d, in the order of files
RECURSIVE ExpectedChecksums(_, _)
ExpectedChecksums(d, n) ==
    IF n = 0 THEN <<>>
    ELSE IF exists(path_join(d, files[n].file_name))
         THEN Append(ExpectedChecksums(d, n - 1),
                  [placeholder |-> files[n].placeholder, checksum |-> DigestOf(d, n)])
         ELSE ExpectedChecksums(d, n - 1)

\* the loop of lines 40-48 has gone through all five entries
LoopDone(p) ==
    /\ isdir(args[p].release_dir)
    /\ \/ pc[p] \in {"hashed", "reading", "read", "opened", "closed", "printed", "exit"}
       \/ /\ pc[p] = "killed"
          /\ \E k \in 1..Len(fsops[p]) : fsops[p][k].path = meta_yaml_path

(* C4: a missing archive is skipped and nothing more: whatever subset of   *)
(* the five archives release_dir holds, every present archive is hashed,   *)
(* every absent one is warned about, no fault comes from an absent         *)
(* archive, and a run that ends has written the template, with the version *)
(* line rewritten, and exits with status 0.                                *)
C4_MissingArchiveIsSkipped ==
    \A p \in Procs :
        /\ LoopDone(p) =>
              /\ checksums[p] = ExpectedChecksums(args[p].release_dir, Len(files))
              /\ \A i \in 1..Len(files) :
                    LET file_path == path_join(args[p].release_dir, files[i].file_name)
                    IN  /\ \E k \in 1..Len(fsops[p]) :
                               fsops[p][k] = [op |-> "exists", path |-> file_path]
                        /\ Present(p, i) <=>
                               \E k \in 1..Len(fsops[p]) :
                                   fsops[p][k] = [op |-> "read", path |-> file_path]
                        /\ ~Present(p, i) <=>
                               \E k \in 1..Len(stdout[p]) :
                                   /\ stdout[p][k].line = "Warning: not found"
                                   /\ stdout[p][k].about = file_path
        /\ pc[p] = "fault" =>
              \/ ~meta_exists
              \/ /\ fsops[p][Len(fsops[p])].op = "read"
                 /\ exists(fsops[p][Len(fsops[p])].path)
        /\ pc[p] = "exit" /\ isdir(args[p].release_dir) =>
              /\ rc[p] = 0
              /\ fsops[p][Len(fsops[p])] = [op |-> "write", path |-> meta_yaml_path]
              /\ meta_yaml = content[p]
              /\ Occurrences(read_text[p], DeclOpen) = Occurrences(meta_yaml,
                     DeclOpen \o Bare(args[p].version) \o DeclClose)

\* a run over a directory that holds some of the archives and lacks others
\* has ended with status 0
C4_Witness ==
    \E p \in Procs : \E i, j \in 1..Len(files) :
        /\ Updated(p) /\ Present(p, i) /\ ~Present(p, j)
        /\ Len(checksums[p]) < Len(files)
        /\ meta_yaml # meta0

(* C5: update_meta_yaml is idempotent: a second run with the same version  *)
(* and the same release directory leaves the template as the first run     *)
(* wrote it.                                                               *)
C5_Idempotent ==
    Updated("p1") /\ Updated("p2") /\ args["p1"] = args["p2"] =>
        /\ read_text["p2"] = content["p1"]
        /\ meta_yaml = content["p1"]

\* the script has run twice with the same arguments and the first run
\* changed the template
C5_Witness ==
    /\ Updated("p1") /\ Updated("p2") /\ args["p1"] = args["p2"]
    /\ content["p1"] # meta0
    /\ Len(checksums["p2"]) > 0

(* C6 as stated: the template gets the bare form and the summary line of   *)
(* the log names the tagged form (v3.0.0 for the argument v3.0.0 or 3.0.0).*)
C6_LogNamesTaggedVersion ==
    \A p \in Procs :
        Updated(p) =>
            /\ DeclSeq(meta_yaml, 1)[1] = Bare(args[p].version)
            /\ stdout[p][Len(stdout[p])].value = Tagged(args[p].version)

(* C6, amended: the bare form is what is written to the template and also  *)
(* what the summary line of the log names; the tagged form is computed     *)
(* (local `version`) and appears in no line of the output.                 *)
C6_LogNamesBareVersion ==
    \A p \in Procs :
        Updated(p) =>
            /\ version[p] = Tagged(args[p].version)
            /\ version_num[p] = Bare(args[p].version)
            /\ DeclSeq(meta_yaml, 1)[1] = Bare(args[p].version)
            /\ stdout[p][Len(stdout[p])].line = "Updated with version"
            /\ stdout[p][Len(stdout[p])].value = Bare(args[p].version)
            /\ \A k \in 1..Len(stdout[p]) : stdout[p][k].value # Tagged(args[p].version)

\* a run given v2 has ended, and its summary line names 2
C6_Witness ==
    \E p \in Procs :
        /\ Updated(p)
        /\ args[p].version = <<"v", "2">>
        /\ stdout[p][Len(stdout[p])].value = <<"2">>

(* C7 as stated: only the first version declaration of the template is     *)
(* replaced; in a template with two or more, the later ones stay as they   *)
(* were.                                                                   *)
C7_OnlyFirstDeclarationReplaced ==
    \A p \in Procs :
        LatestWriter(p) /\ Len(DeclSeq(read_text[p], 1)) >= 2 =>
            LET before == DeclSeq(read_text[p], 1)
                after == DeclSeq(meta_yaml, 1)
            IN  /\ Len(after) = Len(before)
                /\ after[1] = version_num[p]
                /\ \A k \in 2..Len(before) : after[k] = before[k]

(* C7, amended: every version declaration of the template is replaced, the *)
(* first and the later ones alike: a template with two or more             *)
(* declarations holds as many afterwards, each with the bare version.      *)
C7_EveryDeclarationReplaced ==
    \A p \in Procs :
        LatestWriter(p) /\ Len(DeclSeq(read_text[p], 1)) >= 2 =>
            LET before == DeclSeq(read_text[p], 1)
                after == DeclSeq(meta_yaml, 1)
            IN  /\ Len(after) = Len(before)
                /\ \A k \in 1..Len(before) : after[k] = version_num[p]

\* a run has rewritten a template whose second declaration held another
\* value than the first
C7_Witness ==
    \E p \in Procs :
        /\ LatestWriter(p)
        /\ Len(DeclSeq(read_text[p], 1)) >= 2
        /\ DeclSeq(read_text[p], 1)[2] # DeclSeq(read_text[p], 1)[1]
        /\ DeclSeq(read_text[p], 1)[2] # version_num[p]
        /\ DeclSeq(meta_yaml, 1)[2] = version_num[p]

\* the filesystem operation at index k of run p changes a file
IsWrite(p, k) == fsops[p][k].op \in {"truncate", "write"}

\* run p has written its content to the template
Written(p) == \E k \in 1..Len(fsops[p]) : fsops[p][k].op = "write"

\* run p has opened the template for writing
Truncated(p) == \E k \in 1..Len(fsops[p]) : fsops[p][k].op = "truncate"

(* C8: within a run the write of the template is the last filesystem       *)
(* effect: every existence check, every hashing read and the read of the   *)
(* template come before the file is opened for writing. So a run that      *)
(* faults or is killed before it opens the template for writing leaves the *)
(* template as it was; only a run stopped between the truncating open and  *)
(* the close leaves it partially written.                                  *)
C8_WriteIsLastEffect ==
    \A p \in Procs :
        /\ \A i, j \in 1..Len(fsops[p]) : IsWrite(p, i) /\ ~IsWrite(p, j) => j < i
        /\ \A i \in 1..Len(fsops[p]) : fsops[p][i].op = "write" => i = Len(fsops[p])
        /\ Truncated(p) =>
               \E k \in 1..Len(fsops[p]) :
                   fsops[p][k] = [op |-> "read", path |-> meta_yaml_path]
        /\ (\A q \in Procs : ~Truncated(q)) => meta_yaml = meta0
        /\ pc[p] \in {"fault", "killed"} /\ meta_yaml # meta0 =>
               /\ pc[p] = "killed" /\ Truncated(p)
               /\ meta_yaml = IF Written(p) THEN content[p] ELSE <<>>
        /\ Updated(p) => Written(p) /\ meta_yaml = content[p]

\* a run was killed between its read of the template and its write, and
\* the template is as it was
C8_Witness ==
    /\ pc["p1"] = "killed"
    /\ read_text["p1"] # <<>>
    /\ ~Truncated("p1")
    /\ meta_yaml = meta0

-----------------------------------------------------------------------------
\* the run whose write of the template is the latest, and the other one
LastWriter == wlog[Len(wlog)].proc
Other(p) == CHOOSE q \in Procs : q # p

\* both runs of a race have written the template and ended
BothUpdated == \A p \in Procs : Updated(p)

\* the index in wlog of the operation `op` of run p
At(p, op) == CHOOSE k \in 1..Len(wlog) : wlog[k] = [proc |-> p, op |-> op]

\* the text holds `prefix` at its start
StartsWith(text, prefix) == MatchAt(text, 1, prefix)

(* C9 as stated: however the steps of two concurrent runs interleave, the  *)
(* final template is exactly what the run whose write is last has written. *)
C9_LastWriterWins ==
    BothUpdated => meta_yaml = content[LastWriter]

(* C9, amended: the final template starts with what the run whose write is *)
(* last has written. It is exactly that unless the last writer had already *)
(* opened (truncated) the template when the other run wrote a longer       *)
(* content: then the other run's characters beyond the last writer's       *)
(* length stay in the file. When the final template is exactly the last    *)
(* writer's content and that run read the template before the other one    *)
(* touched it, the result is the last writer's substitutions on the        *)
(* original template alone: the other run's are lost.                      *)
C9_LastWriterWinsUpToTail ==
    BothUpdated =>
        LET w == LastWriter
            o == Other(w)
            overlap == At(w, "truncate") < At(o, "write")
            tail == SubSeq(content[o], Len(content[w]) + 1, Len(content[o]))
        IN  /\ StartsWith(meta_yaml, content[w])
            /\ meta_yaml = IF overlap THEN content[w] \o tail ELSE content[w]
            /\ read_text[w] = meta0 /\ (~overlap \/ tail = <<>>) =>
                   meta_yaml = substitute(meta0, Bare(args[w].version),
                                   ExpectedChecksums(args[w].release_dir, Len(files)))

\* two runs have raced, both read the original template, and the template
\* ends with characters of the run that wrote first
C9_Witness ==
    /\ BothUpdated
    /\ read_text["p1"] = meta0 /\ read_text["p2"] = meta0
    /\ At(LastWriter, "truncate") < At(Other(LastWriter), "write")
    /\ meta_yaml # content[LastWriter]
    /\ Len(meta_yaml) = Len(content[Other(LastWriter)])

-----------------------------------------------------------------------------
\* the placeholders and the digests of the archives present for run p
Touchable(p) ==
    UNION { {files[i].placeholder, DigestOf(args[p].release_dir, i)} :
                i \in {k \in 1..Len(files) : Present(p, k)} }

\* the number of characters to skip at index j of the text: a version
\* declaration or a literal of lits that starts there, or 0
SkipAt(text, j, lits) ==
    IF DeclQuote(text, j) # 0 THEN DeclQuote(text, j) + Len(DeclClose) - j
    ELSE IF \E l \in lits : MatchAt(text, j, l)
         THEN Len(CHOOSE l \in lits : MatchAt(text, j, l))
         ELSE 0

\* the text from index i on without the stretches that start at the
\* indices of hs, leftmost first
RECURSIVE EraseFrom(_, _, _, _)
EraseFrom(text, i, lits, hs) ==
    LET rest == {j \in hs : j >= i}
    IN  IF rest = {} THEN SubSeq(text, i, Len(text))
        ELSE LET j == Min(rest)
             IN  SubSeq(text, i, j - 1)
                     \o EraseFrom(text, j + SkipAt(text, j, lits), lits, hs)

\* the text without its version declarations and without the literals of
\* lits
Erase(text, lits) ==
    EraseFrom(text, 1, lits, {j \in 1..Len(text) : SkipAt(text, j, lits) # 0})

(* C10, as stated: update_meta_yaml changes the template only at its       *)
(* version declarations and at the placeholders of the archives present in *)
(* release_dir: the rest of the characters of the file are as they were    *)
(* read, and no other file is written. So a placeholder an earlier run     *)
(* replaced by a digest stays that digest when a later run, over other     *)
(* archive contents, rewrites the version line.                            *)
C10_RestOfTemplatePreserved ==
    /\ \A p \in Procs :
           /\ LatestWriter(p) =>
                  Erase(meta_yaml, Touchable(p)) = Erase(read_text[p], Touchable(p))
           /\ \A k \in 1..Len(fsops[p]) :
                  IsWrite(p, k) => fsops[p][k].path = meta_yaml_path
    /\ BothUpdated /\ args["p1"].release_dir # args["p2"].release_dir =>
           /\ \A k \in 1..Len(DeclSeq(meta_yaml, 1)) :
                  DeclSeq(meta_yaml, 1)[k] = Bare(args["p2"].version)
           /\ \A i \in 1..Len(files) :
                  Present("p1", i) /\ Present("p2", i) =>
                      LET first == DigestOf(args["p1"].release_dir, i)
                          second == DigestOf(args["p2"].release_dir, i)
                      IN  /\ Occurrences(meta_yaml, first)
                                 = Occurrences(meta0, files[i].placeholder)
                          /\ Occurrences(meta_yaml, second) = 0

(* C10, amended: update_meta_yaml changes the template only at its version *)
(* declarations, at the placeholders of the archives present in            *)
(* release_dir, and at its line endings: the file is read and written in   *)
(* text mode, so every "\r\n" and every other "\r" is written back as the  *)
(* line separator of the platform, "\n" here, and a template with "\n"     *)
(* line endings keeps every other character. The rest of the text is as    *)
(* file.read() returned it, and no other file is written. So a placeholder *)
(* an earlier run replaced by a digest stays that digest when a later run, *)
(* over other archive contents, rewrites the version line.                 *)
C10_RestPreservedUpToLineEndings ==
    /\ \A p \in Procs :
           /\ LatestWriter(p) =>
                  /\ Erase(meta_yaml, Touchable(p)) = Erase(TextRead(p), Touchable(p))
                  /\ Occurrences(read_text[p], <<"\r">>) = 0 => TextRead(p) = read_text[p]
           /\ \A k \in 1..Len(fsops[p]) :
                  IsWrite(p, k) => fsops[p][k].path = meta_yaml_path
    /\ BothUpdated /\ args["p1"].release_dir # args["p2"].release_dir =>
           /\ \A k \in 1..Len(DeclSeq(meta_yaml, 1)) :
                  DeclSeq(meta_yaml, 1)[k] = Bare(args["p2"].version)
           /\ \A i \in 1..Len(files) :
                  Present("p1", i) /\ Present("p2", i) =>
                      LET first == DigestOf(args["p1"].release_dir, i)
                          second == DigestOf(args["p2"].release_dir, i)
                      IN  /\ Occurrences(meta_yaml, first)
                                 = Occurrences(meta0, files[i].placeholder)
                          /\ Occurrences(meta_yaml, second) = 0

\* a template with carriage returns was rewritten without them; a second
\* run over another release has rewritten the version line and the digest
\* of the first run is still in the template
C10_Witness ==
    /\ BothUpdated
    /\ Occurrences(meta0, <<"\r">>) > 0 /\ Occurrences(meta_yaml, <<"\r">>) = 0
    /\ args["p1"].release_dir = "dist/r1" /\ args["p2"].release_dir = "dist/r2"
    /\ Bare(args["p1"].version) # Bare(args["p2"].version)
    /\ DeclSeq(meta_yaml, 1)[1] = Bare(args["p2"].version)
    /\ \E i \in 1..Len(files) :
           /\ Present("p1", i)
           /\ Occurrences(meta_yaml, DigestOf("dist/r1", i)) > 0
           /\ Occurrences(meta_yaml, DigestOf("dist/r2", i)) = 0

====
